---- MODULE Spec2Model ----
(***************************************************************************)
(* Relay utility passes of src/relay/pass/util.cc: the free-variable and   *)
(* free-type-variable visitors, the expression reference counter and the   *)
(* constant-sign predicate, each as a state machine over an arena of       *)
(* immutable IR nodes.  A recursive visit is a stack of frames (the C++    *)
(* call stack): a frame is a node whose VisitExpr_ is running and the      *)
(* index of the next child it will visit.                                  *)
(***************************************************************************)
EXTENDS Integers, Sequences, FiniteSets, TLC

\* Bounds of the expression arenas the visitors are run on.
MaxNodes == 2
MaxSlots == 5
NumVars == 2
MaxTypes == 1
NumTypeVars == 1

VARIABLES exprs, types, visitor, stack, free_vars_, bound_vars_, visit_counter_, pc, ret

vars == <<exprs, types, visitor, stack, free_vars_, bound_vars_, visit_counter_, pc, ret>>

----------------------------------------------------------------------------
(* The expression arena.  A node is addressed by its index (the pointer of *)
(* the C++ node); VarNodes are the indices 1..NumVars, the other nodes     *)
(* follow, and the root of the traversal is the first of them.  A node     *)
(* refers only to VarNodes and to later nodes, so the graph is acyclic;    *)
(* two references to one index share the node.                             *)
(*   Var       vars = <<>>       kids = <<>>                               *)
(*   Call      vars = <<>>       kids = <<op>> \o args                     *)
(*   Function  vars = params     kids = <<body>>                           *)
(*   Let       vars = <<var>>    kids = <<value, body>>                    *)
(* type_params are a Function's type parameters; types holds a Var's       *)
(* type_annotation or a Function's ret_type when there is one.  The arenas *)
(* of the term-level visitors carry no types: these never look at them.    *)

VarIds == 1..NumVars

Root == NumVars + 1

VarNode == [kind |-> "Var", vars |-> <<>>, kids |-> <<>>, type_params |-> <<>>, types |-> <<>>]

Range(s) == {s[i] : i \in DOMAIN s}

SeqsOfLen(S, n) == [1..n -> S]

\* Variables are pointers, and a visitor tells two of them apart only by
\* equality; an arena is therefore taken up to renaming, the variables
\* numbered in the order in which the arena first refers to them.  refs
\* from place i on keeps that order when the variables up to k are in use.
RECURSIVE InOrder(_, _, _)
InOrder(refs, i, k) ==
  IF i > Len(refs) THEN TRUE
  ELSE /\ refs[i] <= k + 1
       /\ InOrder(refs, i + 1, IF refs[i] > k THEN refs[i] ELSE k)

\* The highest of k and the numbers in refs.
RECURSIVE MaxOf(_, _, _)
MaxOf(refs, i, k) ==
  IF i > Len(refs) THEN k
  ELSE MaxOf(refs, i + 1, IF refs[i] > k THEN refs[i] ELSE k)

UpTo(refs, n) == SelectSeq(refs, LAMBDA r : r <= n)

\* What node i of an arena of n non-variable nodes may refer to.
Targets(i, n) == VarIds \cup ((NumVars + i + 1)..(NumVars + n))

\* The nodes that can stand at place i, holding exactly s references.
NodesWith(i, n, s) ==
  {[kind |-> "Call", vars |-> <<>>, kids |-> k, type_params |-> <<>>, types |-> <<>>] :
     k \in SeqsOfLen(Targets(i, n), s)}
  \cup
  UNION {{[kind |-> "Function", vars |-> p, kids |-> <<b>>,
           type_params |-> <<>>, types |-> <<>>] :
            p \in SeqsOfLen(VarIds, s - 1)} : b \in Targets(i, n)}
  \cup
  (IF s = 3
     THEN {[kind |-> "Let", vars |-> <<v>>, kids |-> k,
            type_params |-> <<>>, types |-> <<>>] :
             v \in VarIds, k \in SeqsOfLen(Targets(i, n), 2)}
     ELSE {})

\* Every non-variable node but the root is referred to by an earlier one.
Connected(a) ==
  \A j \in (Root + 1)..Len(a) :
    \E i \in Root..(j - 1) : j \in Range(a[i].kids)

\* The variables an expression node refers to, in order.
VarRefs(nd) == UpTo(nd.vars \o nd.kids, NumVars)

\* exprs is an arena of n non-variable nodes holding at most budget
\* references between them: the nodes from place i on are chosen, acc holds
\* the VarNodes and the nodes before place i, which use the variables up
\* to used.
RECURSIVE IsArena(_, _, _, _, _)
IsArena(i, n, budget, acc, used) ==
  IF i > n
    THEN Connected(acc) /\ exprs = acc
    ELSE \E s \in 1..budget :
           \E nd \in NodesWith(i, n, s) :
             /\ InOrder(VarRefs(nd), 1, used)
             /\ IsArena(i + 1, n, budget - s, Append(acc, nd),
                        MaxOf(VarRefs(nd), 1, used))

Kind(n) == exprs[n].kind
FnParams(n) == exprs[n].vars
FnBody(n) == exprs[n].kids[1]
LetVar(n) == exprs[n].vars[1]
LetValue(n) == exprs[n].kids[1]
LetBody(n) == exprs[n].kids[2]
CallOp(n) == exprs[n].kids[1]
CallArgs(n) == SubSeq(exprs[n].kids, 2, Len(exprs[n].kids))

----------------------------------------------------------------------------
(* ExprVisitor, the base class of the three expression visitors.           *)

\* ExprVisitor::VisitExpr_ of a node kind that is not overridden: the
\* children in their natural order.
BaseChildren(n) ==
  CASE Kind(n) = "Var" -> <<>>
    [] Kind(n) = "Call" -> <<CallOp(n)>> \o CallArgs(n)
    [] Kind(n) = "Function" -> FnParams(n) \o <<FnBody(n)>>
    [] Kind(n) = "Let" -> <<LetVar(n), LetValue(n), LetBody(n)>>

\* visit_counter_[n] += 1, the entry made on first reaching n.
Bump(m, n) ==
  [k \in DOMAIN m \cup {n} |->
     IF k = n THEN (IF n \in DOMAIN m THEN m[n] + 1 ELSE 1) ELSE m[k]]

FindFrame == 0

Top == stack[Len(stack)]

\* The frame on top is to visit child number Top.next of its node.
HasPending(Ch(_)) == pc = "run" /\ stack # <<>> /\ Top.next <= Len(Ch(Top.node))

\* The frame on top has visited all its children.
Finished(Ch(_)) == pc = "run" /\ stack # <<>> /\ Top.next > Len(Ch(Top.node))

Pending(Ch(_)) == Ch(Top.node)[Top.next]

\* The call VisitExpr(n) made by the top frame: the frame moves on to its
\* next child and, when n has children of its own, n's frame is pushed.
Call(n, kids) ==
  LET f == Top
      moved == [stack EXCEPT ![Len(stack)] = [f EXCEPT !.next = f.next + 1]]
  IN  IF kids = <<>> THEN moved ELSE Append(moved, [node |-> n, next |-> 1])

----------------------------------------------------------------------------
(* FreeVarVisitor.                                                         *)

FreeVarChildren(n) ==
  CASE n = FindFrame -> <<Root>>
    [] Kind(n) = "Var" -> <<>>
    [] Kind(n) = "Function" -> <<FnBody(n)>>
    [] Kind(n) = "Let" -> <<LetValue(n), LetBody(n)>>
    [] OTHER -> BaseChildren(n)

\* FV_VisitVar keeping one entry for each variable.
FV_VisitVarOnce ==
  /\ visitor = "FreeVarVisitor"
  /\ HasPending(FreeVarChildren)
  /\ LET var == Pending(FreeVarChildren) IN
       /\ Kind(var) = "Var"
       /\ free_vars_' = IF var \notin bound_vars_ \cup Range(free_vars_)
                          THEN Append(free_vars_, var) ELSE free_vars_
       /\ visit_counter_' = Bump(visit_counter_, var)
       /\ stack' = Call(var, <<>>)
  /\ UNCHANGED <<exprs, types, visitor, bound_vars_, pc, ret>>

\* FV_VisitVar without the test of the bound set.
FV_VisitVarAlways ==
  /\ visitor = "FreeVarVisitor"
  /\ HasPending(FreeVarChildren)
  /\ LET var == Pending(FreeVarChildren) IN
       /\ Kind(var) = "Var"
       /\ free_vars_' = IF var \notin {}
                          THEN Append(free_vars_, var) ELSE free_vars_
       /\ visit_counter_' = Bump(visit_counter_, var)
       /\ stack' = Call(var, <<>>)
  /\ UNCHANGED <<exprs, types, visitor, bound_vars_, pc, ret>>

FV_VisitVar ==
  /\ visitor = "FreeVarVisitor"
  /\ HasPending(FreeVarChildren)
  /\ LET var == Pending(FreeVarChildren) IN
       /\ Kind(var) = "Var"
       /\ free_vars_' = IF var \notin bound_vars_
                          THEN Append(free_vars_, var) ELSE free_vars_
       /\ visit_counter_' = Bump(visit_counter_, var)
       /\ stack' = Call(var, <<>>)
  /\ UNCHANGED <<exprs, types, visitor, bound_vars_, pc, ret>>

\* FV_VisitFunction with the parameters taking the place of the bound set.
FV_VisitFunctionScoped ==
  /\ visitor = "FreeVarVisitor"
  /\ HasPending(FreeVarChildren)
  /\ LET op == Pending(FreeVarChildren) IN
       /\ Kind(op) = "Function"
       /\ bound_vars_' = Range(FnParams(op))
       /\ visit_counter_' = Bump(visit_counter_, op)
       /\ stack' = Call(op, FreeVarChildren(op))
  /\ UNCHANGED <<exprs, types, visitor, free_vars_, pc, ret>>

\* FV_VisitFunction without the insertion of the parameters.
FV_VisitFunctionUnbound ==
  /\ visitor = "FreeVarVisitor"
  /\ HasPending(FreeVarChildren)
  /\ LET op == Pending(FreeVarChildren) IN
       /\ Kind(op) = "Function"
       /\ bound_vars_' = bound_vars_
       /\ visit_counter_' = Bump(visit_counter_, op)
       /\ stack' = Call(op, FreeVarChildren(op))
  /\ UNCHANGED <<exprs, types, visitor, free_vars_, pc, ret>>

FV_VisitFunction ==
  /\ visitor = "FreeVarVisitor"
  /\ HasPending(FreeVarChildren)
  /\ LET op == Pending(FreeVarChildren) IN
       /\ Kind(op) = "Function"
       /\ bound_vars_' = bound_vars_ \cup Range(FnParams(op))
       /\ visit_counter_' = Bump(visit_counter_, op)
       /\ stack' = Call(op, FreeVarChildren(op))
  /\ UNCHANGED <<exprs, types, visitor, free_vars_, pc, ret>>

\* FV_VisitLet without the insertion of the bound variable.
FV_VisitLetUnbound ==
  /\ visitor = "FreeVarVisitor"
  /\ HasPending(FreeVarChildren)
  /\ LET op == Pending(FreeVarChildren) IN
       /\ Kind(op) = "Let"
       /\ bound_vars_' = bound_vars_
       /\ visit_counter_' = Bump(visit_counter_, op)
       /\ stack' = Call(op, FreeVarChildren(op))
  /\ UNCHANGED <<exprs, types, visitor, free_vars_, pc, ret>>

FV_VisitLet ==
  /\ visitor = "FreeVarVisitor"
  /\ HasPending(FreeVarChildren)
  /\ LET op == Pending(FreeVarChildren) IN
       /\ Kind(op) = "Let"
       /\ bound_vars_' = bound_vars_ \cup {LetVar(op)}
       /\ visit_counter_' = Bump(visit_counter_, op)
       /\ stack' = Call(op, FreeVarChildren(op))
  /\ UNCHANGED <<exprs, types, visitor, free_vars_, pc, ret>>

FV_VisitCall ==
  /\ visitor = "FreeVarVisitor"
  /\ HasPending(FreeVarChildren)
  /\ LET op == Pending(FreeVarChildren) IN
       /\ Kind(op) = "Call"
       /\ visit_counter_' = Bump(visit_counter_, op)
       /\ stack' = Call(op, FreeVarChildren(op))
  /\ UNCHANGED <<exprs, types, visitor, free_vars_, bound_vars_, pc, ret>>

\* A VisitExpr_ has visited all its children and returns to its caller.
FV_Return ==
  /\ visitor = "FreeVarVisitor"
  /\ Finished(FreeVarChildren) /\ Len(stack) > 1
  /\ stack' = SubSeq(stack, 1, Len(stack) - 1)
  /\ UNCHANGED <<exprs, types, visitor, free_vars_, bound_vars_, visit_counter_, pc, ret>>

\* Find: return free_vars_.
FV_Find ==
  /\ visitor = "FreeVarVisitor"
  /\ Finished(FreeVarChildren) /\ Len(stack) = 1
  /\ stack' = <<>>
  /\ pc' = "done"
  /\ ret' = free_vars_
  /\ UNCHANGED <<exprs, types, visitor, free_vars_, bound_vars_, visit_counter_>>

\* FreeVars(expr): a fresh FreeVarVisitor, about to run Find(expr).
InitFV ==
  /\ types = <<>>
  /\ visitor = "FreeVarVisitor"
  /\ \E n \in 1..MaxNodes :
       IsArena(1, n, MaxSlots, [v \in VarIds |-> VarNode], 0)
  /\ stack = <<[node |-> FindFrame, next |-> 1]>>
  /\ free_vars_ = <<>>
  /\ bound_vars_ = {}
  /\ visit_counter_ = <<>>
  /\ pc = "run"
  /\ ret = <<>>

----------------------------------------------------------------------------
(* GetExprRefCount: the local ExprRefCounter overrides nothing, so every   *)
(* node kind is visited by ExprVisitor itself.                             *)

RefCountChildren(n) == IF n = FindFrame THEN <<Root>> ELSE BaseChildren(n)

RC_Visit ==
  /\ visitor = "ExprRefCounter"
  /\ HasPending(RefCountChildren)
  /\ LET e == Pending(RefCountChildren) IN
       /\ visit_counter_' = Bump(visit_counter_, e)
       /\ stack' = Call(e, RefCountChildren(e))
  /\ UNCHANGED <<exprs, types, visitor, free_vars_, bound_vars_, pc, ret>>

RC_Return ==
  /\ visitor = "ExprRefCounter"
  /\ Finished(RefCountChildren) /\ Len(stack) > 1
  /\ stack' = SubSeq(stack, 1, Len(stack) - 1)
  /\ UNCHANGED <<exprs, types, visitor, free_vars_, bound_vars_, visit_counter_, pc, ret>>

\* RC_Get returning the map it has moved from.
RC_GetMoved ==
  /\ visitor = "ExprRefCounter"
  /\ Finished(RefCountChildren) /\ Len(stack) = 1
  /\ stack' = <<>>
  /\ pc' = "done"
  /\ ret' = <<>>
  /\ visit_counter_' = <<>>
  /\ UNCHANGED <<exprs, types, visitor, free_vars_, bound_vars_>>

\* Get: return std::move(this->visit_counter_); the map that is left is
\* destroyed with the counter and never read.
RC_Get ==
  /\ visitor = "ExprRefCounter"
  /\ Finished(RefCountChildren) /\ Len(stack) = 1
  /\ stack' = <<>>
  /\ pc' = "done"
  /\ ret' = visit_counter_
  /\ visit_counter_' = <<>>
  /\ UNCHANGED <<exprs, types, visitor, free_vars_, bound_vars_>>

\* GetExprRefCount(body): a fresh ExprRefCounter, about to run Get(body).
InitRC ==
  /\ types = <<>>
  /\ visitor = "ExprRefCounter"
  /\ \E n \in 1..MaxNodes :
       IsArena(1, n, MaxSlots, [v \in VarIds |-> VarNode], 0)
  /\ stack = <<[node |-> FindFrame, next |-> 1]>>
  /\ free_vars_ = <<>>
  /\ bound_vars_ = {}
  /\ visit_counter_ = <<>>
  /\ pc = "run"
  /\ ret = <<>>

----------------------------------------------------------------------------
(* The type arena, laid out as the expression arena: TypeVarNodes are the  *)
(* indices 1..NumTypeVars, the other type nodes follow.                    *)
(*   TypeVar    type_params = <<>>          kids = <<>>                    *)
(*   FuncType   type_params = type_params   kids = arg_types \o <<ret_type>> *)
(*   TupleType  type_params = <<>>          kids = fields                  *)

TypeVarIds == 1..NumTypeVars

TypeRoot == NumTypeVars + 1

TypeVarNode == [kind |-> "TypeVar", type_params |-> <<>>, kids |-> <<>>]

TypeTargets(i, m) == TypeVarIds \cup ((NumTypeVars + i + 1)..(NumTypeVars + m))

\* The type nodes that can stand at place i, holding exactly s references.
TypeNodesWith(i, m, s) ==
  {[kind |-> "TupleType", type_params |-> <<>>, kids |-> k] :
     k \in SeqsOfLen(TypeTargets(i, m), s)}
  \cup
  UNION {{[kind |-> "FuncType", type_params |-> tp, kids |-> k] :
            tp \in SeqsOfLen(TypeVarIds, s - a),
            k \in SeqsOfLen(TypeTargets(i, m), a)} : a \in 1..s}

\* The annotated expression nodes: a Function with type parameters and a
\* return type, besides the nodes of the untyped arena.
TypedNodesWith(i, n, m, s) ==
  NodesWith(i, n, s)
  \cup
  UNION {UNION {{[kind |-> "Function", vars |-> p, kids |-> <<b>>,
                  type_params |-> tp, types |-> rt] :
                   p \in SeqsOfLen(VarIds, s - 1 - a - r),
                   tp \in SeqsOfLen(TypeVarIds, a),
                   rt \in SeqsOfLen(1..(NumTypeVars + m), r),
                   b \in Targets(i, n)} :
                a \in {x \in 0..(s - 1 - r) : x + r > 0}} : r \in {x \in 0..1 : x < s}}

\* Every type node but the type variables is referred to: by an earlier
\* type node, by an annotation, or by the caller when it is the root.
TypesConnected(ta, ea, n) ==
  \A j \in TypeRoot..Len(ta) :
    \/ n = 0 /\ j = TypeRoot
    \/ \E i \in TypeRoot..(j - 1) : j \in Range(ta[i].kids)
    \/ \E e \in DOMAIN ea : j \in Range(ea[e].types)

\* An annotated variable is referred to by some node.
VarsConnected(ea) ==
  \A v \in VarIds :
    ea[v].types # <<>> =>
      \E e \in DOMAIN ea : v \in Range(ea[e].kids) \cup Range(ea[e].vars)

\* The type variables a type node or an expression node refers to, in
\* order.
TypeVarRefs(nd) == UpTo(nd.type_params \o nd.kids, NumTypeVars)
AnnotationRefs(nd) == UpTo(nd.type_params \o nd.types, NumTypeVars)

\* types is an arena of m type nodes and exprs an arena of n expression
\* nodes over it, holding at most budget references together; used and
\* tused are the variables and the type variables in use so far.
RECURSIVE IsTypedExprs(_, _, _, _, _, _, _, _)
IsTypedExprs(i, n, m, budget, tacc, eacc, used, tused) ==
  IF i > n
    THEN /\ Connected(eacc) /\ VarsConnected(eacc) /\ TypesConnected(tacc, eacc, n)
         /\ exprs = eacc
         /\ types = tacc
    ELSE \E s \in 1..budget :
           \E nd \in TypedNodesWith(i, n, m, s) :
             /\ InOrder(VarRefs(nd), 1, used)
             /\ InOrder(AnnotationRefs(nd), 1, tused)
             /\ IsTypedExprs(i + 1, n, m, budget - s, tacc, Append(eacc, nd),
                             MaxOf(VarRefs(nd), 1, used),
                             MaxOf(AnnotationRefs(nd), 1, tused))

RECURSIVE IsTypedVars(_, _, _, _, _, _, _)
IsTypedVars(v, n, m, budget, tacc, eacc, tused) ==
  IF v > NumVars
    THEN IsTypedExprs(1, n, m, budget, tacc, eacc, 0, tused)
    ELSE \/ IsTypedVars(v + 1, n, m, budget, tacc, Append(eacc, VarNode), tused)
         \/ /\ budget > 0 /\ n > 0
            /\ \E t \in 1..(NumTypeVars + m) :
                 /\ InOrder(UpTo(<<t>>, NumTypeVars), 1, tused)
                 /\ IsTypedVars(v + 1, n, m, budget - 1, tacc,
                                Append(eacc, [VarNode EXCEPT !.types = <<t>>]),
                                MaxOf(UpTo(<<t>>, NumTypeVars), 1, tused))

RECURSIVE IsTypedArena(_, _, _, _, _, _)
IsTypedArena(i, n, m, budget, tacc, tused) ==
  IF i > m
    THEN IsTypedVars(1, n, m, budget, tacc, <<>>, tused)
    ELSE \E s \in 1..budget :
           \E nd \in TypeNodesWith(i, m, s) :
             /\ InOrder(TypeVarRefs(nd), 1, tused)
             /\ IsTypedArena(i + 1, n, m, budget - s, Append(tacc, nd),
                             MaxOf(TypeVarRefs(nd), 1, tused))

TypeKind(t) == types[t].kind

----------------------------------------------------------------------------
(* FreeTypeVarEVisitor, and the FreeTypeVarTVisitor its VisitType runs on  *)
(* the same free_vars_ and bound_vars_.  A frame is an expression node or  *)
(* a type node.                                                            *)

ExprRef(n) == [sort |-> "expr", node |-> n]
TypeRef(t) == [sort |-> "type", node |-> t]

Refs(Ref(_), ids) == [i \in DOMAIN ids |-> Ref(ids[i])]

\* ExprVisitor::VisitExpr_ under FreeTypeVarEVisitor, with the types that
\* its VisitType is given on the way.
TVExprChildren(n) ==
  CASE Kind(n) = "Var" -> Refs(TypeRef, exprs[n].types)
    [] Kind(n) = "Call" -> Refs(ExprRef, <<CallOp(n)>> \o CallArgs(n))
    [] Kind(n) = "Function" ->
         Refs(ExprRef, FnParams(n)) \o Refs(TypeRef, exprs[n].types)
           \o <<ExprRef(FnBody(n))>>
    [] Kind(n) = "Let" -> Refs(ExprRef, <<LetVar(n), LetValue(n), LetBody(n)>>)

\* TypeVisitor::VisitType_: the argument types and the return type of a
\* function type, the fields of a tuple type.
TVTypeChildren(t) == Refs(TypeRef, types[t].kids)

TVChildren(f) ==
  CASE f.sort = "FindExpr" -> <<ExprRef(Root)>>
    [] f.sort = "FindType" -> <<TypeRef(TypeRoot)>>
    [] f.sort = "expr" -> TVExprChildren(f.node)
    [] f.sort = "type" -> TVTypeChildren(f.node)

TVRun == visitor = "FreeTypeVarEVisitor"

TVHasPending == TVRun /\ pc = "run" /\ stack # <<>> /\ Top.next <= Len(TVChildren(Top))

TVFinished == TVRun /\ pc = "run" /\ stack # <<>> /\ Top.next > Len(TVChildren(Top))

TVPending == TVChildren(Top)[Top.next]

\* The call VisitExpr(n) or VisitType(t) made by the top frame.
TVCall(r) ==
  LET f == Top
      moved == [stack EXCEPT ![Len(stack)] = [f EXCEPT !.next = f.next + 1]]
      g == [sort |-> r.sort, node |-> r.node, next |-> 1]
  IN  IF TVChildren(g) = <<>> THEN moved ELSE Append(moved, g)

TV_VisitTypeVar ==
  /\ TVHasPending
  /\ TVPending.sort = "type"
  /\ LET var == TVPending.node IN
       /\ TypeKind(var) = "TypeVar"
       /\ free_vars_' = IF var \notin bound_vars_
                          THEN Append(free_vars_, var) ELSE free_vars_
       /\ stack' = TVCall(TVPending)
  /\ UNCHANGED <<exprs, types, visitor, bound_vars_, visit_counter_, pc, ret>>

\* TV_VisitFuncType without the insertion of the type parameters.
TV_VisitFuncTypeUnbound ==
  /\ TVHasPending
  /\ TVPending.sort = "type"
  /\ LET f == TVPending.node IN
       /\ TypeKind(f) = "FuncType"
       /\ bound_vars_' = bound_vars_
       /\ stack' = TVCall(TVPending)
  /\ UNCHANGED <<exprs, types, visitor, free_vars_, visit_counter_, pc, ret>>

TV_VisitFuncType ==
  /\ TVHasPending
  /\ TVPending.sort = "type"
  /\ LET f == TVPending.node IN
       /\ TypeKind(f) = "FuncType"
       /\ bound_vars_' = bound_vars_ \cup Range(types[f].type_params)
       /\ stack' = TVCall(TVPending)
  /\ UNCHANGED <<exprs, types, visitor, free_vars_, visit_counter_, pc, ret>>

\* Any other type node: TypeVisitor visits its children.
TV_VisitType ==
  /\ TVHasPending
  /\ TVPending.sort = "type"
  /\ TypeKind(TVPending.node) = "TupleType"
  /\ stack' = TVCall(TVPending)
  /\ UNCHANGED <<exprs, types, visitor, free_vars_, bound_vars_, visit_counter_, pc, ret>>

TV_VisitFunction ==
  /\ TVHasPending
  /\ TVPending.sort = "expr"
  /\ LET f == TVPending.node IN
       /\ Kind(f) = "Function"
       /\ bound_vars_' = bound_vars_ \cup Range(exprs[f].type_params)
       /\ visit_counter_' = Bump(visit_counter_, f)
       /\ stack' = TVCall(TVPending)
  /\ UNCHANGED <<exprs, types, visitor, free_vars_, pc, ret>>

\* Any other expression node: ExprVisitor visits its children.
TV_VisitExpr ==
  /\ TVHasPending
  /\ TVPending.sort = "expr"
  /\ Kind(TVPending.node) # "Function"
  /\ visit_counter_' = Bump(visit_counter_, TVPending.node)
  /\ stack' = TVCall(TVPending)
  /\ UNCHANGED <<exprs, types, visitor, free_vars_, bound_vars_, pc, ret>>

TV_Return ==
  /\ TVFinished /\ Len(stack) > 1
  /\ stack' = SubSeq(stack, 1, Len(stack) - 1)
  /\ UNCHANGED <<exprs, types, visitor, free_vars_, bound_vars_, visit_counter_, pc, ret>>

\* Find: return free_vars_.
TV_Find ==
  /\ TVFinished /\ Len(stack) = 1
  /\ stack' = <<>>
  /\ pc' = "done"
  /\ ret' = free_vars_
  /\ UNCHANGED <<exprs, types, visitor, free_vars_, bound_vars_, visit_counter_>>

\* FreeTypeVars(expr) or FreeTypeVars(type): a fresh FreeTypeVarEVisitor,
\* about to run Find on the expression (n > 0) or on the type (n = 0).
InitTV ==
  /\ visitor = "FreeTypeVarEVisitor"
  /\ \E n \in 0..MaxNodes : \E m \in 0..MaxTypes :
       /\ n = 0 => m > 0
       /\ IsTypedArena(1, n, m, MaxSlots, [v \in TypeVarIds |-> TypeVarNode], 0)
       /\ stack = <<[sort |-> IF n = 0 THEN "FindType" ELSE "FindExpr",
                     node |-> 0, next |-> 1]>>
  /\ free_vars_ = <<>>
  /\ bound_vars_ = {}
  /\ visit_counter_ = <<>>
  /\ pc = "run"
  /\ ret = <<>>

----------------------------------------------------------------------------
(* IsAllPositiveConstant and IsNDArrayAllGreaterEqual.  The arena starts   *)
(* with the operator registry, one Op node for each name, and a VarNode;   *)
(* the expression that is analysed follows.                                *)
(*   Op        name                                                        *)
(*   Constant  data, the tensor                                            *)
(*   Call      kids = <<op>> \o args                                       *)
(* A tensor is its DLTensor header and its elements in row-major order,    *)
(* each a value of the element type.                                       *)

MaxSize == 4

OpNames == <<"expand_dims", "reshape", "transpose", "squeeze", "add">>

OpNode(i) == [kind |-> "Op", name |-> OpNames[i]]

SignVar == Len(OpNames) + 1

SignRoot == Len(OpNames) + 2

\* Op::Get(name): the registry's node of that name.
OpGet(name) == CHOOSE n \in DOMAIN exprs : Kind(n) = "Op" /\ exprs[n].name = name

DTypes == [code : {"kDLInt", "kDLUInt", "kDLFloat"}, bits : {8, 32, 64}, lanes : {1, 4}]

\* The values an element of that type is drawn from.
Elements(dtype) == IF dtype.code = "kDLUInt" THEN {0, 1} ELSE {-1, 0, 1}

RECURSIVE Product(_, _)
Product(shape, i) == IF i > Len(shape) THEN 1 ELSE shape[i] * Product(shape, i + 1)

\* The shapes of at most two dimensions whose rank and element count
\* together stay within size.
Shapes(size) ==
  {sh \in {<<>>} \cup SeqsOfLen(0..size, 1) \cup SeqsOfLen(0..size, 2) :
     Len(sh) + Product(sh, 1) <= size}

Tensors(size) ==
  UNION {UNION {{[dtype |-> dt, device_type |-> dev, strides |-> st,
                  byte_offset |-> off, ndim |-> Len(sh), shape |-> sh, data |-> d] :
                   dev \in {"kDLCPU", "kDLGPU"}, st \in {"nullptr", "strides"},
                   off \in {0, 8}, d \in SeqsOfLen(Elements(dt), Product(sh, 1))} :
                dt \in DTypes} : sh \in Shapes(size)}

SignCall(op, args) ==
  [kind |-> "Call", vars |-> <<>>, kids |-> <<op>> \o args,
   type_params |-> <<>>, types |-> <<>>]

\* exprs is the registry, the VarNode and a chain of calls, each on the
\* next node and perhaps on the VarNode as well, that ends in a constant
\* or in a node of another kind; calls, further arguments, dimensions and
\* elements are at most budget together.
RECURSIVE IsSignArena(_, _)
IsSignArena(budget, acc) ==
  \/ \E k \in {"Var", "Let", "Function"} :
       exprs = Append(acc, [VarNode EXCEPT !.kind = k])
  \/ /\ budget > 0
     /\ \E t \in Tensors(budget) :
          exprs = Append(acc, [kind |-> "Constant", data |-> t])
  \/ /\ budget > 0
     /\ \E op \in DOMAIN OpNames : \E extra \in 0..1 :
          /\ extra < budget
          /\ IsSignArena(budget - 1 - extra,
                         Append(acc, SignCall(op,
                                   <<Len(acc) + 2>> \o
                                   (IF extra = 1 THEN <<SignVar>> ELSE <<>>))))

\* IsNDArrayAllGreaterEqual<T>: the three CHECKs hold.
LayoutChecks(tensor) ==
  /\ tensor.device_type = "kDLCPU"
  /\ tensor.strides = "nullptr"
  /\ tensor.byte_offset = 0

\* IsNDArrayAllGreaterEqual<T>: num_elems.
NumElems(tensor) == Product(tensor.shape, 1)

\* IsAllPositiveConstant: the element types of the else-if chain.
Dispatched(dtype) ==
  \/ dtype.code = "kDLFloat" /\ dtype.bits = 32
  \/ dtype.code = "kDLFloat" /\ dtype.bits = 64
  \/ dtype.code = "kDLInt" /\ dtype.bits = 8
  \/ dtype.code = "kDLInt" /\ dtype.bits = 32
  \/ dtype.code = "kDLUInt" /\ dtype.bits = 8
  \/ dtype.code = "kDLUInt" /\ dtype.bits = 32

\* IsAllPositiveConstant: the operators that are peeled.
Peeled(op) ==
  \/ op = OpGet("expand_dims")
  \/ op = OpGet("reshape")
  \/ op = OpGet("transpose")
  \/ op = OpGet("squeeze")

SignRun == visitor = "IsAllPositiveConstant"

\* The top frame is a call of IsAllPositiveConstant that has just begun.
AtExpr == SignRun /\ pc = "run" /\ Top.fn = "IsAllPositiveConstant"

Frame(e) == [fn |-> "IsAllPositiveConstant", expr |-> e, i |-> 0]

\* Sign_Constant answering false where a CHECK fails.
Sign_ConstantUnchecked ==
  /\ AtExpr
  /\ Kind(Top.expr) = "Constant"
  /\ LET tensor == exprs[Top.expr].data
         dtype == tensor.dtype
     IN  IF dtype.lanes # 1 \/ ~Dispatched(dtype)
           THEN pc' = "return" /\ ret' = FALSE /\ stack' = stack
           ELSE IF ~LayoutChecks(tensor)
                  THEN pc' = "return" /\ ret' = FALSE /\ stack' = stack
                  ELSE /\ pc' = "run" /\ ret' = ret
                       /\ stack' = Append(stack, [fn |-> "IsNDArrayAllGreaterEqual",
                                                  expr |-> Top.expr, i |-> 0])
  /\ UNCHANGED <<exprs, types, visitor, free_vars_, bound_vars_, visit_counter_>>

\* expr is a ConstantNode.
Sign_Constant ==
  /\ AtExpr
  /\ Kind(Top.expr) = "Constant"
  /\ LET tensor == exprs[Top.expr].data
         dtype == tensor.dtype
     IN  IF dtype.lanes # 1 \/ ~Dispatched(dtype)
           THEN pc' = "return" /\ ret' = FALSE /\ stack' = stack
           ELSE IF ~LayoutChecks(tensor)
                  THEN pc' = "fatal" /\ ret' = ret /\ stack' = <<>>
                  ELSE /\ pc' = "run" /\ ret' = ret
                       /\ stack' = Append(stack, [fn |-> "IsNDArrayAllGreaterEqual",
                                                  expr |-> Top.expr, i |-> 0])
  /\ UNCHANGED <<exprs, types, visitor, free_vars_, bound_vars_, visit_counter_>>

\* Sign_Scan with <= for <: a zero fails.
Sign_ScanStrict ==
  /\ SignRun /\ pc = "run" /\ Top.fn = "IsNDArrayAllGreaterEqual"
  /\ LET tensor == exprs[Top.expr].data
         value == 0
     IN  IF Top.i < NumElems(tensor)
           THEN IF tensor.data[Top.i + 1] <= value
                  THEN pc' = "return" /\ ret' = FALSE /\ stack' = stack
                  ELSE /\ pc' = "run" /\ ret' = ret
                       /\ stack' = [stack EXCEPT ![Len(stack)].i = Top.i + 1]
           ELSE pc' = "return" /\ ret' = TRUE /\ stack' = stack
  /\ UNCHANGED <<exprs, types, visitor, free_vars_, bound_vars_, visit_counter_>>

\* One turn of the loop of IsNDArrayAllGreaterEqual, or its exit.
Sign_Scan ==
  /\ SignRun /\ pc = "run" /\ Top.fn = "IsNDArrayAllGreaterEqual"
  /\ LET tensor == exprs[Top.expr].data
         value == 0
     IN  IF Top.i < NumElems(tensor)
           THEN IF tensor.data[Top.i + 1] < value
                  THEN pc' = "return" /\ ret' = FALSE /\ stack' = stack
                  ELSE /\ pc' = "run" /\ ret' = ret
                       /\ stack' = [stack EXCEPT ![Len(stack)].i = Top.i + 1]
           ELSE pc' = "return" /\ ret' = TRUE /\ stack' = stack
  /\ UNCHANGED <<exprs, types, visitor, free_vars_, bound_vars_, visit_counter_>>

\* Sign_Call peeling to the last argument.
Sign_CallLastArg ==
  /\ AtExpr
  /\ Kind(Top.expr) = "Call"
  /\ IF Peeled(CallOp(Top.expr))
       THEN /\ pc' = "run" /\ ret' = ret
            /\ stack' = Append(stack, Frame(CallArgs(Top.expr)[Len(CallArgs(Top.expr))]))
       ELSE pc' = "return" /\ ret' = FALSE /\ stack' = stack
  /\ UNCHANGED <<exprs, types, visitor, free_vars_, bound_vars_, visit_counter_>>

\* expr is a CallNode.
Sign_Call ==
  /\ AtExpr
  /\ Kind(Top.expr) = "Call"
  /\ IF Peeled(CallOp(Top.expr))
       THEN /\ pc' = "run" /\ ret' = ret
            /\ stack' = Append(stack, Frame(CallArgs(Top.expr)[1]))
       ELSE pc' = "return" /\ ret' = FALSE /\ stack' = stack
  /\ UNCHANGED <<exprs, types, visitor, free_vars_, bound_vars_, visit_counter_>>

\* expr is neither.
Sign_Other ==
  /\ AtExpr
  /\ Kind(Top.expr) \notin {"Constant", "Call"}
  /\ pc' = "return" /\ ret' = FALSE /\ stack' = stack
  /\ UNCHANGED <<exprs, types, visitor, free_vars_, bound_vars_, visit_counter_>>

\* The top frame returns ret: to the frame below, which returns it in its
\* turn, or to the caller of IsAllPositiveConstant.
Sign_Return ==
  /\ SignRun /\ pc = "return"
  /\ stack' = SubSeq(stack, 1, Len(stack) - 1)
  /\ pc' = IF Len(stack) = 1 THEN "done" ELSE "return"
  /\ UNCHANGED <<exprs, types, visitor, free_vars_, bound_vars_, visit_counter_, ret>>

\* IsAllPositiveConstant(expr) is called on the root.
InitSign ==
  /\ visitor = "IsAllPositiveConstant"
  /\ IsSignArena(MaxSize, [i \in DOMAIN OpNames |-> OpNode(i)] \o <<VarNode>>)
  /\ types = <<>>
  /\ stack = <<Frame(SignRoot)>>
  /\ free_vars_ = <<>>
  /\ bound_vars_ = {}
  /\ visit_counter_ = <<>>
  /\ pc = "run"
  /\ ret = FALSE

NextSign ==
  \/ Sign_Constant
  \/ Sign_Scan
  \/ Sign_Call
  \/ Sign_Other
  \/ Sign_Return

SpecSign == InitSign /\ [][NextSign]_vars

----------------------------------------------------------------------------
Init == InitFV \/ InitRC \/ InitTV

Next ==
  \/ FV_VisitVar
  \/ FV_VisitFunction
  \/ FV_VisitLet
  \/ FV_VisitCall
  \/ FV_Return
  \/ FV_Find
  \/ RC_Visit
  \/ RC_Return
  \/ RC_Get
  \/ TV_VisitTypeVar
  \/ TV_VisitFuncType
  \/ TV_VisitType
  \/ TV_VisitFunction
  \/ TV_VisitExpr
  \/ TV_Return
  \/ TV_Find

Spec == Init /\ [][Next]_vars

----------------------------------------------------------------------------
(* Lexical scoping, read off the arena alone, for the claims to refer to.  *)

FVRun == visitor = "FreeVarVisitor"

\* The variables a node binds in the expressions under it.
BindersOf(n) == IF n = FindFrame THEN {} ELSE Range(exprs[n].vars)

\* The variables bound by the nodes whose visit is in progress: the
\* binders on the path from the root to the node about to be visited.
PathBinders == UNION {BindersOf(stack[i].node) : i \in DOMAIN stack}

\* The variables bound by any node reached so far in this call.
EnteredBinders == UNION {BindersOf(n) : n \in DOMAIN visit_counter_}

\* Some variable reference under n has no binder of it between n and
\* itself, nor in env.
RECURSIVE HasUnbound(_, _)
HasUnbound(n, env) ==
  IF Kind(n) = "Var" THEN n \notin env
  ELSE \E i \in DOMAIN exprs[n].kids :
         HasUnbound(exprs[n].kids[i], env \cup BindersOf(n))

\* The variable references under n, one entry for each, in pre-order from
\* left to right.
RECURSIVE Occurrences(_)
RECURSIVE OccurrencesOf(_, _)
OccurrencesOf(ks, i) ==
  IF i > Len(ks) THEN <<>> ELSE Occurrences(ks[i]) \o OccurrencesOf(ks, i + 1)
Occurrences(n) ==
  IF Kind(n) = "Var" THEN <<n>> ELSE OccurrencesOf(exprs[n].kids, 1)

\* The top frame is about to visit a variable reference.
AtVar == FVRun /\ HasPending(FreeVarChildren) /\ Kind(Pending(FreeVarChildren)) = "Var"

\* let x = f(x) in x, with f another variable than x.
LetSelfRef ==
  /\ Kind(Root) = "Let"
  /\ LetBody(Root) = LetVar(Root)
  /\ Kind(LetValue(Root)) = "Call"
  /\ CallArgs(LetValue(Root)) = <<LetVar(Root)>>
  /\ CallOp(LetValue(Root)) \in VarIds \ {LetVar(Root)}

----------------------------------------------------------------------------
\* C1: on a let-binding FindFreeVariables puts the bound variable in the
\* bound set before it visits the value, then visits the value, then the
\* body; the bound variable is reported free neither in the value nor in the
\* body, and let x = f(x) in x yields exactly [f].
C1_LetBindsBeforeValue ==
  (FVRun /\ Kind(Root) = "Let") =>
     /\ LetVar(Root) \notin Range(free_vars_)
     /\ (Len(stack) >= 2 =>
           /\ stack[2].node = Root
           /\ LetVar(Root) \in bound_vars_
           /\ (stack[2].next = 1 => DOMAIN visit_counter_ = {Root})
           /\ (stack[2].next = 2 => LetValue(Root) \in DOMAIN visit_counter_))
     /\ (pc = "done" /\ LetSelfRef => ret = <<CallOp(LetValue(Root))>>)

C1_Witness ==
  FVRun /\ pc = "done" /\ LetSelfRef /\ ret = <<CallOp(LetValue(Root))>>

\* C2: an expression in which every variable reference lies under a function
\* parameter or let-binding of that variable has no free variables; so has
\* the function of parameter x whose body is x.
C2_ClosedHasNoFreeVars ==
  (FVRun /\ pc = "done" /\ ~HasUnbound(Root, {})) => ret = <<>>

C2_Witness ==
  /\ FVRun /\ pc = "done" /\ ret = <<>>
  /\ Kind(Root) = "Function"
  /\ Kind(FnBody(Root)) = "Var"
  /\ FnParams(Root) = <<FnBody(Root)>>

\* C3 as claimed: a variable reference is reported if and only if no
\* function or let node on the path from the root to it binds the variable.
C3_ReportedIffNoBinderOnPath ==
  [][AtVar =>
       ((free_vars_' = Append(free_vars_, Pending(FreeVarChildren)))
          <=> Pending(FreeVarChildren) \notin PathBinders)]_vars

\* C3 amended: a variable reference is reported if and only if no function
\* or let node reached earlier in the same call binds the variable, be it on
\* the path to the reference or in a subtree visited before; a reported
\* reference therefore has no binder on its path.
C3_ReportedIffNoBinderEntered ==
  [][AtVar =>
       /\ (free_vars_' = Append(free_vars_, Pending(FreeVarChildren)))
            <=> Pending(FreeVarChildren) \notin EnteredBinders
       /\ (free_vars_' # free_vars_ =>
             Pending(FreeVarChildren) \notin PathBinders)
       /\ (Pending(FreeVarChildren) \in EnteredBinders =>
             free_vars_' = free_vars_)]_vars

\* A reference outside the scope of the binder that hides it.
C3_Witness ==
  AtVar /\ Pending(FreeVarChildren) \in EnteredBinders \ PathBinders

\* C4: a call starts from an empty bound set and the bound set only grows:
\* no binder leaves it when its subtree is finished, so that it still
\* counts as bound in the subtrees visited later.
C4_BoundSetMonotonic ==
  /\ bound_vars_ = {}
  /\ [][bound_vars_ \subseteq bound_vars_']_vars

\* The visit of a binder's node has returned and its variable is still bound.
C4_Witness ==
  /\ pc = "run" /\ visitor # "ExprRefCounter"
  /\ \E n \in DOMAIN visit_counter_ :
       /\ BindersOf(n) # {}
       /\ BindersOf(n) \subseteq bound_vars_
       /\ \A i \in DOMAIN stack : stack[i].node # n

\* C5: the result lists the references to free variables in pre-order,
\* depth first and left to right (callee, then the arguments in order), one
\* entry for each reference: restricted to the variables the call never
\* binds it is the sequence of their references, and y(y) yields [y, y].
C5_PreOrderWithDuplicates ==
  (FVRun /\ pc = "done") =>
     LET free(v) == v \notin bound_vars_
     IN  /\ SelectSeq(ret, free) = SelectSeq(Occurrences(Root), free)
         /\ (bound_vars_ = {} => ret = Occurrences(Root))

C5_Witness ==
  /\ FVRun /\ pc = "done"
  /\ Kind(Root) = "Call"
  /\ CallArgs(Root) = <<CallOp(Root)>>
  /\ Kind(CallOp(Root)) = "Var"
  /\ ret = <<CallOp(Root), CallOp(Root)>>

----------------------------------------------------------------------------
(* The edges of the expression graph, for the claims on the counter.       *)

RCRun == visitor = "ExprRefCounter"

Interior == Root..Len(exprs)

\* The edges into n: <<p, i>> is child number i of node p.
EdgesInto(n) ==
  {e \in UNION {{<<p, i>> : i \in DOMAIN BaseChildren(p)} : p \in Interior} :
     BaseChildren(e[1])[e[2]] = n}

\* The references to n: its incoming edges, and the caller's for the root.
References(n) == Cardinality(EdgesInto(n)) + (IF n = Root THEN 1 ELSE 0)

\* The paths from the root to n.
RECURSIVE Paths(_)
RECURSIVE PathsThrough(_)
PathsThrough(edges) ==
  IF edges = {} THEN 0
  ELSE LET e == CHOOSE x \in edges : TRUE
       IN  Paths(e[1]) + PathsThrough(edges \ {e})
Paths(n) == IF n = Root THEN 1 ELSE PathsThrough(EdgesInto(n))

----------------------------------------------------------------------------
(* Type scoping, for the claim on the type-variable visitor.               *)

\* The type parameters a frame's node declares.
TypeParamsOf(f) ==
  CASE f.sort = "expr" -> Range(exprs[f.node].type_params)
    [] f.sort = "type" -> Range(types[f.node].type_params)
    [] OTHER -> {}

\* The type parameters declared by the nodes whose visit is in progress.
PathTypeParams == UNION {TypeParamsOf(stack[i]) : i \in DOMAIN stack}

\* The top frame is about to visit a type variable.
AtTypeVar ==
  /\ TVHasPending
  /\ TVPending.sort = "type"
  /\ TypeKind(TVPending.node) = "TypeVar"

\* C10: FindFreeTypeVariables appends a type variable exactly when it is
\* not in the bound set at the moment it is visited; a function type and a
\* function expression put their type parameters in the bound set before
\* their children are visited, so that no type parameter is reported from
\* inside the node that declares it.
C10_TypeParamsBoundInside ==
  [][/\ TVRun => PathTypeParams' \subseteq bound_vars_'
     /\ AtTypeVar =>
          /\ (free_vars_' = Append(free_vars_, TVPending.node))
               <=> TVPending.node \notin bound_vars_
          /\ (TVPending.node \in bound_vars_ => free_vars_' = free_vars_)
          /\ (TVPending.node \in PathTypeParams => free_vars_' = free_vars_)]_vars

\* A type parameter is met inside the function type and inside the function
\* expression that declare it.
C10_Witness ==
  /\ AtTypeVar
  /\ \E i, j \in DOMAIN stack :
       /\ stack[i].sort = "expr" /\ stack[j].sort = "type"
       /\ TVPending.node \in TypeParamsOf(stack[i]) \cap TypeParamsOf(stack[j])

----------------------------------------------------------------------------
(* The constant-sign predicate.                                            *)

RootTensor == exprs[SignRoot].data

SupportedEncodings ==
  {<<"kDLFloat", 32>>, <<"kDLFloat", 64>>, <<"kDLInt", 8>>, <<"kDLInt", 32>>,
   <<"kDLUInt", 8>>, <<"kDLUInt", 32>>}

Encoding(t) == <<t.dtype.code, t.dtype.bits>>

SupportedLayout(t) ==
  t.device_type = "kDLCPU" /\ t.strides = "nullptr" /\ t.byte_offset = 0

\* Lane count 1, one of the six encodings, and no element below zero.
AllNonNegative(t) ==
  /\ t.dtype.lanes = 1
  /\ Encoding(t) \in SupportedEncodings
  /\ \A k \in 1..Product(t.shape, 1) : t.data[k] >= 0

\* C7: on a constant of supported layout IsAllNonNegativeConstant is true
\* exactly when the lane count is 1, the encoding is one of the six and
\* every element is at least zero; any other lane count or encoding gives
\* false whatever the elements, and the scan stops with false at the first
\* element below zero.
C7_ConstantAllNonNegative ==
  (SignRun /\ Kind(SignRoot) = "Constant" /\ SupportedLayout(RootTensor)) =>
     /\ pc # "fatal"
     /\ (pc = "done" => ret = AllNonNegative(RootTensor))
     /\ (pc = "done" /\ (RootTensor.dtype.lanes # 1
                          \/ Encoding(RootTensor) \notin SupportedEncodings)
           => ret = FALSE)
     /\ (pc = "return" /\ Top.fn = "IsNDArrayAllGreaterEqual" /\ ret = FALSE =>
           /\ RootTensor.data[Top.i + 1] < 0
           /\ \A k \in 1..Top.i : RootTensor.data[k] >= 0)

\* A zero among the elements, and the answer is true.
C7_Witness ==
  /\ SignRun /\ pc = "done" /\ ret = TRUE
  /\ Kind(SignRoot) = "Constant"
  /\ Len(RootTensor.data) >= 2
  /\ 0 \in Range(RootTensor.data)

\* What the claims say of the expression at n, read off the arena alone.
RECURSIVE Peel(_)
Peel(n) ==
  CASE Kind(n) = "Constant" -> AllNonNegative(exprs[n].data)
    [] Kind(n) = "Call" ->
         IF exprs[CallOp(n)].name \in {"expand_dims", "reshape", "transpose", "squeeze"}
           THEN Peel(CallArgs(n)[1])
           ELSE FALSE
    [] OTHER -> FALSE

\* C8: on a call of expand_dims, reshape, transpose or squeeze
\* IsAllNonNegativeConstant returns what it returns on the first argument,
\* whatever the other arguments and at any depth of such calls; on a call of
\* another operator, a variable, a let or a function it returns false.
C8_PeelsFirstArgument ==
  SignRun =>
     /\ \A k \in 2..Len(stack) :
          stack[k].fn = "IsAllPositiveConstant" =>
            /\ Kind(stack[k - 1].expr) = "Call"
            /\ exprs[CallOp(stack[k - 1].expr)].name
                 \in {"expand_dims", "reshape", "transpose", "squeeze"}
            /\ stack[k].expr = CallArgs(stack[k - 1].expr)[1]
     /\ (pc = "done" /\ Kind(SignRoot) # "Constant" => ret = Peel(SignRoot))
     /\ (pc = "done" /\ Kind(SignRoot) \notin {"Constant", "Call"} => ret = FALSE)

\* Two peeled calls, the outer with a second argument, over a constant that
\* passes.
C8_Witness ==
  /\ SignRun /\ pc = "done" /\ ret = TRUE
  /\ Kind(SignRoot) = "Call"
  /\ Len(CallArgs(SignRoot)) = 2
  /\ Kind(CallArgs(SignRoot)[1]) = "Call"

====
